---- MODULE Spec2Model ----
(***************************************************************************)
(* A model of the caption enhancer (caption_enhancer.py) and of the upload *)
(* handler (web_ui.py).  A Python str is a sequence of one-character       *)
(* strings, so that stripping, prefix tests, marker search, tokenisation   *)
(* and case folding are computed the way the code computes them.           *)
(***************************************************************************)
EXTENDS Integers, Sequences, FiniteSets, TLC

(***************************************************************************)
(* str primitives                                                          *)
(***************************************************************************)
UpperChars == <<"A", "B", "C", "D", "E", "F", "G", "H", "I", "J", "K", "L", "M",
                "N", "O", "P", "Q", "R", "S", "T", "U", "V", "W", "X", "Y", "Z">>

LowerChars == <<"a", "b", "c", "d", "e", "f", "g", "h", "i", "j", "k", "l", "m",
                "n", "o", "p", "q", "r", "s", "t", "u", "v", "w", "x", "y", "z">>

Whitespace == {" ", "\n", "\t"}

\* str.isupper() of one character
IsUpper(c) == \E i \in DOMAIN UpperChars : UpperChars[i] = c

\* str.lower() of one character
LowerChar(c) ==
    IF IsUpper(c)
    THEN LowerChars[CHOOSE i \in DOMAIN UpperChars : UpperChars[i] = c]
    ELSE c

\* str.lower()
Lower(s) == [i \in 1..Len(s) |-> LowerChar(s[i])]

\* s[n:]
Drop(s, n) == SubSeq(s, n + 1, Len(s))

\* str.strip(chars): every leading and trailing character in cs is removed
StripSet(s, cs) ==
    LET keep == {i \in 1..Len(s) : s[i] \notin cs}
    IN  IF keep = {} THEN <<>>
        ELSE LET lo == CHOOSE i \in keep : \A j \in keep : i <= j
                 hi == CHOOSE i \in keep : \A j \in keep : j <= i
             IN  SubSeq(s, lo, hi)

\* str.strip()
Strip(s) == StripSet(s, Whitespace)

\* str.startswith(p)
StartsWith(s, p) == Len(p) <= Len(s) /\ SubSeq(s, 1, Len(p)) = p

\* the indices at which m occurs in s
Occurrences(s, m) ==
    {i \in 1..(Len(s) - Len(m) + 1) : SubSeq(s, i, i + Len(m) - 1) = m}

\* m in s
Contains(s, m) == Occurrences(s, m) # {}

\* s.split(m)[0]: the text before the first occurrence of m
BeforeFirst(s, m) ==
    IF ~Contains(s, m) THEN s
    ELSE LET i == CHOOSE k \in Occurrences(s, m) : \A j \in Occurrences(s, m) : k <= j
         IN  SubSeq(s, 1, i - 1)

\* str.split(): the maximal runs of non-whitespace characters, in order
RECURSIVE SplitFrom(_, _, _)
SplitFrom(s, i, cur) ==
    IF i > Len(s)
    THEN IF cur = <<>> THEN <<>> ELSE <<cur>>
    ELSE IF s[i] \in Whitespace
         THEN IF cur = <<>> THEN SplitFrom(s, i + 1, <<>>)
              ELSE <<cur>> \o SplitFrom(s, i + 1, <<>>)
         ELSE SplitFrom(s, i + 1, Append(cur, s[i]))

Split(s) == SplitFrom(s, 1, <<>>)

\* ' '.join(words)
RECURSIVE Join(_)
Join(ws) ==
    IF ws = <<>> THEN <<>>
    ELSE IF Len(ws) = 1 THEN ws[1]
         ELSE ws[1] \o <<" ">> \o Join(Tail(ws))

\* set(words)
SetOf(ws) == {ws[i] : i \in DOMAIN ws}

(***************************************************************************)
(* CaptionEnhancer._cleanup_caption                                        *)
(***************************************************************************)
prefixes_to_remove ==
    << <<"c", "a", "p", "t", "i", "o", "n", ":">>,
       <<"c", "a", "p", "t", "i", "o", "n", " ", "i", "s", ":">>,
       <<"t", "h", "e", " ", "c", "a", "p", "t", "i", "o", "n", ":">>,
       <<"d", "e", "s", "c", "r", "i", "p", "t", "i", "o", "n", ":">>,
       <<"i", "m", "a", "g", "e", " ", "c", "a", "p", "t", "i", "o", "n", ":">>,
       <<"c", "a", "p", "t", "i", "o", "n", ":">>,
       <<"a", " ", "s", "i", "m", "p", "l", "e", " ", "c", "a", "p", "t", "i", "o", "n", ":">>,
       <<"m", "l", "-", "s", "t", "y", "l", "e", " ", "c", "a", "p", "t", "i", "o", "n", ":">>,
       <<"r", "e", "s", "n", "e", "t", "5", "0", " ", "c", "a", "p", "t", "i", "o", "n", ":">> >>

explanation_markers ==
    << <<" ", "-", " ">>,
       <<" ", "b", "e", "c", "a", "u", "s", "e", " ">>,
       <<" ", "s", "i", "n", "c", "e", " ">>,
       <<" ", "a", "s", " ">>,
       <<" ", "(">>,
       <<" ", "[">>,
       <<"\n">> >>

\* the length up to which a capitalised caption has its first letter lowered
LowercaseMaxWords == 15

\* the number of words a caption is cut to
MaxCaptionWords == 18

\* caption.strip().strip('"').strip("'").strip()
StripQuotes(s) == Strip(StripSet(StripSet(Strip(s), {"\""}), {"'"}))

\* the first prefix of the list that the lowered caption starts with is cut off
RemovePrefix(s) ==
    LET hits == {i \in DOMAIN prefixes_to_remove :
                    StartsWith(Lower(s), prefixes_to_remove[i])}
    IN  IF hits = {} THEN s
        ELSE LET i == CHOOSE k \in hits : \A j \in hits : k <= j
             IN  Strip(Drop(s, Len(prefixes_to_remove[i])))

\* the first marker of the list that occurs in the caption cuts it
RemoveExplanation(s) ==
    LET hits == {i \in DOMAIN explanation_markers :
                    Contains(s, explanation_markers[i])}
    IN  IF hits = {} THEN s
        ELSE LET i == CHOOSE k \in hits : \A j \in hits : k <= j
             IN  Strip(BeforeFirst(s, explanation_markers[i]))

\* a capitalised caption of at most LowercaseMaxWords words starts lowercase
LowerStart(s) ==
    IF s # <<>> /\ IsUpper(s[1]) /\ Len(Split(s)) <= LowercaseMaxWords
    THEN IF Len(s) > 1 THEN <<LowerChar(s[1])>> \o Drop(s, 1) ELSE Lower(s)
    ELSE s

\* the word limit set to the 15 words the prompt asks for
LimitLengthPrompt(s) ==
    LET words == Split(s)
    IN  IF Len(words) > LowercaseMaxWords
        THEN Join(SubSeq(words, 1, LowercaseMaxWords))
        ELSE s

\* more than MaxCaptionWords words are cut to the first MaxCaptionWords
LimitLength(s) ==
    LET words == Split(s)
    IN  IF Len(words) > MaxCaptionWords
        THEN Join(SubSeq(words, 1, MaxCaptionWords))
        ELSE s

cleanup_caption(caption) ==
    IF caption = <<>> THEN caption
    ELSE Strip(LimitLength(LowerStart(RemoveExplanation(RemovePrefix(StripQuotes(caption))))))

(***************************************************************************)
(* CaptionEnhancer._is_valid_enhancement                                   *)
(***************************************************************************)
people_words ==
    { <<"m", "a", "n">>, <<"w", "o", "m", "a", "n">>, <<"p", "e", "r", "s", "o", "n">>,
      <<"p", "e", "o", "p", "l", "e">>, <<"c", "r", "o", "w", "d">>,
      <<"s", "t", "a", "n", "d", "i", "n", "g">>, <<"s", "i", "t", "t", "i", "n", "g">>,
      <<"w", "a", "l", "k", "i", "n", "g">> }

vehicle_words ==
    { <<"c", "a", "r">>, <<"c", "a", "r", "s">>, <<"v", "e", "h", "i", "c", "l", "e">>,
      <<"v", "e", "h", "i", "c", "l", "e", "s">>, <<"s", "t", "r", "e", "e", "t">>,
      <<"r", "o", "a", "d">>, <<"p", "a", "r", "k", "e", "d">>,
      <<"d", "r", "i", "v", "i", "n", "g">> }

has_people(original) == \E w \in people_words : Contains(Lower(original), w)

has_vehicles(enhanced) == \E w \in vehicle_words : Contains(Lower(enhanced), w)

\* set(original.lower().split())
original_words(original) == SetOf(Split(Lower(original)))

\* len(original_words.intersection(enhanced_words))
overlap(original, enhanced) ==
    Cardinality(original_words(original) \cap SetOf(Split(Lower(enhanced))))

Max(a, b) == IF a >= b THEN a ELSE b

\* the ratio taken over the words of the original, repeats counted
LowOverlapPerWord(original, enhanced) ==
    10 * overlap(original, enhanced) < 2 * Max(Len(Split(original)), 1)

\* overlap / max(len(original_words), 1) < 0.2, in tenths
LowOverlap(original, enhanced) ==
    10 * overlap(original, enhanced) < 2 * Max(Cardinality(original_words(original)), 1)

\* a validation that accepts whatever it is given
AcceptAll(original, enhanced) == TRUE

is_valid_enhancement(original, enhanced) ==
    IF enhanced = <<>> \/ Len(Strip(enhanced)) = 0 THEN FALSE
    ELSE IF has_people(original) /\ has_vehicles(enhanced) THEN TRUE
    ELSE IF LowOverlap(original, enhanced) THEN FALSE
    ELSE TRUE

(***************************************************************************)
(* State.  Four groups: the two pure functions under test, one             *)
(* CaptionEnhancer instance, the module-level singleton, and the upload    *)
(* handler with its file cleanup.                                          *)
(***************************************************************************)
VARIABLES
    cleanPc,        \* "input" | "once" | "twice" | "off"
    cleanIn,        \* the text _cleanup_caption is applied to
    cleanOnce,      \* _cleanup_caption(cleanIn)
    cleanTwice,     \* _cleanup_caption(cleanOnce)
    validPc,        \* "input" | "done" | "off"
    validOriginal,  \* the original caption handed to _is_valid_enhancement
    validEnhanced,  \* the enhanced caption handed to _is_valid_enhancement
    validResult     \* what _is_valid_enhancement returned

VARIABLES
    config,               \* what __init__ met: [available, has_key, configure_raises]
    enhancement_enabled,  \* self.enhancement_enabled
    pc,                   \* the statement the instance's caller is at
    caller,               \* who called enhance_caption: "top" | "batch"
    original_caption,     \* enhance_caption's original_caption
    image_path,           \* enhance_caption's image_path: "none" | "missing" | "exists"
    enhanced_caption,     \* the local enhanced_caption of the running path
    result,               \* what enhance_caption returned
    propagated,           \* an exception left enhance_caption
    events,               \* this call's sleeps and requests, in order
    failures,             \* this call's statements that raised
    vision_rejected,      \* this call's vision response failed validation
    text_return,          \* <<v>> once _enhance_without_vision returned v in this call
    captions,             \* batch_enhance's captions
    batch_index,          \* the position of batch_enhance's loop
    enhanced_captions,    \* batch_enhance's enhanced_captions
    batch_calls,          \* the enhance_caption calls batch_enhance made
    batch_sleeps          \* the sleeps batch_enhance made

VARIABLES
    enhancer_global,  \* the module's _enhancer: 0 for None, else the instance's number
    constructions,    \* how many CaptionEnhancer() calls get_enhancer has made
    sPc,              \* per thread: the statement of get_enhancer it is at
    sKind,            \* per thread: "get" (get_enhancer) | "enhance" (enhance_caption)
    sLocal,           \* per thread: the instance constructed and not yet assigned
    sHeld,            \* per thread: the instance get_enhancer last returned
    sUsed,            \* per thread: the instance enhance_caption last called
    overlapped,       \* two calls have run at the same time
    raced             \* a thread found None while another was about to assign

VARIABLES
    uPc,          \* the statement upload_file is at
    request,      \* the request: [has_file, filename]
    staged,       \* file.save(filepath) has returned
    captionOk,    \* generate.getBothCaptions returned (it raised otherwise)
    response,     \* what upload_file returned: [status, success]
    uEvents,      \* the request's save, captioning and cleanup, in order
    fileExists,   \* os.path.exists(filepath)
    clPc,         \* cleanup_file_with_retry: "off" | "loop" | "returned"
    clCaller,     \* who called it: "upload" | "direct"
    clMax,        \* max_retries
    clDelay,      \* delay, in tenths of a second
    clAttempt,    \* attempt, the loop variable
    clOutcomes,   \* per pass of the loop: "absent" | "removed" | "oserror"
    clSleeps,     \* the sleeps made, in tenths of a second
    clRet         \* the value returned

cleanVars == <<cleanPc, cleanIn, cleanOnce, cleanTwice>>

validVars == <<validPc, validOriginal, validEnhanced, validResult>>

callVars == <<caller, original_caption, image_path, enhanced_caption, result,
              propagated, events, failures, vision_rejected, text_return>>

batchVars == <<captions, batch_index, enhanced_captions, batch_calls, batch_sleeps>>

singVars == <<enhancer_global, constructions, sPc, sKind, sLocal, sHeld, sUsed,
              overlapped, raced>>

reqVars == <<uPc, request, staged, captionOk, response, uEvents>>

clVars == <<clPc, clCaller, clMax, clDelay, clAttempt, clOutcomes, clSleeps, clRet>>

upVars == <<reqVars, fileExists, clVars>>

enhVars == <<config, enhancement_enabled, pc, callVars, batchVars>>

vars == <<cleanVars, validVars, enhVars, singVars, upVars>>

CleanOff == cleanPc = "off" /\ cleanIn = <<>> /\ cleanOnce = <<>> /\ cleanTwice = <<>>

ValidOff ==
    /\ validPc = "off" /\ validOriginal = <<>> /\ validEnhanced = <<>>
    /\ validResult = FALSE

\* no call of the instance is running
CallIdle ==
    /\ caller = "top" /\ original_caption = <<>> /\ image_path = "none"
    /\ enhanced_caption = <<>> /\ result = <<>> /\ propagated = FALSE
    /\ events = <<>> /\ failures = {} /\ vision_rejected = FALSE /\ text_return = <<>>

BatchIdle ==
    /\ captions = <<>> /\ batch_index = 0 /\ enhanced_captions = <<>>
    /\ batch_calls = <<>> /\ batch_sleeps = 0

NumThreads == 2

Threads == 1..NumThreads

SingOff ==
    /\ enhancer_global = 0 /\ constructions = 0
    /\ sPc = [t \in Threads |-> "off"]
    /\ sKind = [t \in Threads |-> "get"]
    /\ sLocal = [t \in Threads |-> 0]
    /\ sHeld = [t \in Threads |-> 0]
    /\ sUsed = [t \in Threads |-> 0]
    /\ overlapped = FALSE /\ raced = FALSE

NoRequest == [has_file |-> FALSE, filename |-> ""]

NoResponse == [status |-> 0, success |-> FALSE]

\* no request is being handled
ReqIdle ==
    /\ request = NoRequest /\ staged = FALSE /\ captionOk = FALSE
    /\ response = NoResponse /\ uEvents = <<>>

\* cleanup_file_with_retry is not running
ClIdle ==
    /\ clPc = "off" /\ clCaller = "direct" /\ clMax = 0 /\ clDelay = 0
    /\ clAttempt = 0 /\ clOutcomes = <<>> /\ clSleeps = <<>> /\ clRet = FALSE

UpOff == uPc = "off" /\ ReqIdle /\ fileExists = FALSE /\ ClIdle

EnhOff ==
    /\ config = [available |-> FALSE, has_key |-> FALSE, configure_raises |-> FALSE]
    /\ enhancement_enabled = FALSE
    /\ pc = "off"
    /\ CallIdle /\ BatchIdle

(***************************************************************************)
(* _cleanup_caption applied once and twice to texts built from pieces a    *)
(* model response is made of: prefixes, markers, quotes, words.            *)
(***************************************************************************)
MaxParts == 3

Fragments ==
    { <<"c", "a", "p", "t", "i", "o", "n", ":">>,
      <<"T", "h", "e", " ", "C", "a", "p", "t", "i", "o", "n", ":">>,
      <<" ", "-", " ">>,
      <<" ", "a", "s", " ">>,
      <<" ", "(">>,
      <<"\"">>,
      <<"'">>,
      <<" ">>,
      <<"A">>,
      <<"d", "o", "g">>,
      <<"B", " ", "b", " ", "b", " ", "b", " ", "b", " ", "b", " ", "b", " ", "b", " ">>,
      <<"\n">> }

RECURSIVE Texts(_)
Texts(n) ==
    IF n = 0 THEN {<<>>}
    ELSE LET shorter == Texts(n - 1)
         IN  shorter \cup {t \o f : t \in shorter, f \in Fragments}

CleanupInit ==
    /\ cleanPc = "input"
    /\ cleanIn \in Texts(MaxParts)
    /\ cleanOnce = <<>> /\ cleanTwice = <<>>
    /\ ValidOff /\ EnhOff /\ SingOff /\ UpOff

CleanupOnce ==
    /\ cleanPc = "input"
    /\ cleanOnce' = cleanup_caption(cleanIn)
    /\ cleanPc' = "once"
    /\ UNCHANGED <<cleanIn, cleanTwice, validVars, enhVars, singVars, upVars>>

CleanupTwice ==
    /\ cleanPc = "once"
    /\ cleanTwice' = cleanup_caption(cleanOnce)
    /\ cleanPc' = "twice"
    /\ UNCHANGED <<cleanIn, cleanOnce, validVars, enhVars, singVars, upVars>>

CleanupNext == CleanupOnce \/ CleanupTwice

(***************************************************************************)
(* _is_valid_enhancement applied to originals of up to MaxOrigWords words  *)
(* and a fixed set of proposed captions.                                   *)
(***************************************************************************)
MaxOrigWords == 6

OrigVocab ==
    { <<"a">>,
      <<"D", "o", "g">>,
      <<"m", "a", "n">> }

RECURSIVE WordLists(_)
WordLists(n) ==
    IF n = 0 THEN {<<>>}
    ELSE LET shorter == WordLists(n - 1)
         IN  shorter \cup {Append(ws, w) : ws \in shorter, w \in OrigVocab}

EnhancedTexts ==
    { <<>>,
      <<" ">>,
      <<"a">>,
      <<"A", " ", "d", "o", "g">>,
      <<"a", " ", "c", "a", "r">>,
      <<"c", "a", "t">>,
      <<"d", "o", "g", " ", "d", "o", "g", " ", "m", "a", "n">>,
      <<"W", "o", "m", "a", "n">> }

ValidInit ==
    /\ validPc = "input"
    /\ validOriginal \in {Join(ws) : ws \in WordLists(MaxOrigWords)}
    /\ validEnhanced \in EnhancedTexts
    /\ validResult = FALSE
    /\ CleanOff /\ EnhOff /\ SingOff /\ UpOff

Validate ==
    /\ validPc = "input"
    /\ validResult' = is_valid_enhancement(validOriginal, validEnhanced)
    /\ validPc' = "done"
    /\ UNCHANGED <<validOriginal, validEnhanced, cleanVars, enhVars, singVars, upVars>>

ValidNext == Validate

(***************************************************************************)
(* One CaptionEnhancer instance: __init__, enhance_caption with its vision *)
(* and text-only paths, and batch_enhance.  The external model answers     *)
(* with a text of Responses or raises; every statement of a try block may  *)
(* raise.                                                                  *)
(***************************************************************************)
MaxBatch == 2

Originals ==
    { <<>>,
      <<"a", " ", "m", "a", "n", " ", "w", "a", "l", "k", "i", "n", "g">>,
      <<"a", " ", "r", "e", "d", " ", "a", "p", "p", "l", "e">> }

\* response.text of the hosted model
Responses ==
    { <<"A", " ", "m", "a", "n", " ", "i", "s", " ", "w", "a", "l", "k", "i", "n", "g", " ", "-", " ", "n", "i", "c", "e">>,
      <<"a", " ", "c", "a", "r", " ", "p", "a", "r", "k", "e", "d">>,
      <<"b", "l", "u", "e", " ", "s", "k", "y">>,
      <<>>,
      <<" ", "C", "a", "p", "t", "i", "o", "n", ":", " ", "a", " ", "r", "e", "d", " ", "a", "p", "p", "l", "e", " ">> }

\* None or '', a path os.path.exists denies, a path that exists
ImagePaths == {"none", "missing", "exists"}

RECURSIVE CaptionLists(_)
CaptionLists(n) ==
    IF n = 0 THEN {<<>>}
    ELSE LET shorter == CaptionLists(n - 1)
         IN  shorter \cup {Append(cs, c) : cs \in shorter, c \in Originals}

\* __init__: enabled when the library is there, a key is given and configure works
EnabledByInit(cfg) == cfg.available /\ cfg.has_key /\ ~cfg.configure_raises

EnhInit ==
    /\ config \in [available : BOOLEAN, has_key : BOOLEAN, configure_raises : BOOLEAN]
    /\ enhancement_enabled = EnabledByInit(config)
    /\ pc = "idle"
    /\ CallIdle /\ BatchIdle
    /\ CleanOff /\ ValidOff /\ SingOff /\ UpOff

\* where enhance_caption's return leads
ReturnPc == IF caller = "top" THEN "done" ELSE "batch_append"

\* enhance_caption(c, p) is entered
Enter(c, p, who) ==
    /\ caller' = who
    /\ original_caption' = c
    /\ image_path' = p
    /\ enhanced_caption' = <<>>
    /\ result' = <<>>
    /\ events' = <<>>
    /\ failures' = {}
    /\ vision_rejected' = FALSE
    /\ text_return' = <<>>
    /\ pc' = "enhance"
    /\ UNCHANGED propagated

CallEnhance ==
    /\ pc = "idle"
    /\ \E c \in Originals, p \in ImagePaths : Enter(c, p, "top")
    /\ UNCHANGED <<config, enhancement_enabled, batchVars, cleanVars, validVars, singVars, upVars>>

\* a statement of a try block raised, after the events of log
Raise(what, handler, log) ==
    /\ failures' = failures \cup {what}
    /\ events' = Append(log, what)
    /\ pc' = handler

\* enhance_caption without its early return for a disabled instance
EnhanceBodyUnguarded ==
    /\ pc = "enhance"
    /\ events' = Append(events, "sleep")
    /\ pc' = IF image_path = "exists" THEN "vision_open" ELSE "text_request"
    /\ UNCHANGED <<config, enhancement_enabled, caller, original_caption, image_path,
                   enhanced_caption, result, propagated, failures, vision_rejected,
                   text_return, batchVars, cleanVars, validVars, singVars, upVars>>

\* enhance_caption up to the choice of a path
EnhanceBody ==
    /\ pc = "enhance"
    /\ IF ~enhancement_enabled
       THEN /\ result' = original_caption
            /\ pc' = ReturnPc
            /\ UNCHANGED events
       ELSE /\ events' = Append(events, "sleep")
            /\ pc' = IF image_path = "exists" THEN "vision_open" ELSE "text_request"
            /\ UNCHANGED result
    /\ UNCHANGED <<config, enhancement_enabled, caller, original_caption, image_path,
                   enhanced_caption, propagated, failures, vision_rejected,
                   text_return, batchVars, cleanVars, validVars, singVars, upVars>>

\* Image.open(image_path)
VisionOpen ==
    /\ pc = "vision_open"
    /\ \E ok \in BOOLEAN :
          IF ok THEN pc' = "vision_request" /\ UNCHANGED <<failures, events>>
          ELSE Raise("image_load", "vision_except", events)
    /\ UNCHANGED <<config, enhancement_enabled, caller, original_caption, image_path,
                   enhanced_caption, result, propagated, vision_rejected,
                   text_return, batchVars, cleanVars, validVars, singVars, upVars>>

\* self.vision_model.generate_content(...) and response.text.strip()
VisionRequest ==
    /\ pc = "vision_request"
    /\ \E ok \in BOOLEAN, r \in Responses :
          IF ok THEN /\ enhanced_caption' = Strip(r)
                     /\ events' = Append(events, "vision")
                     /\ pc' = "vision_cleanup"
                     /\ UNCHANGED failures
          ELSE /\ Raise("vision_request", "vision_except", Append(events, "vision"))
               /\ UNCHANGED enhanced_caption
    /\ UNCHANGED <<config, enhancement_enabled, caller, original_caption, image_path,
                   result, propagated, vision_rejected, text_return,
                   batchVars, cleanVars, validVars, singVars, upVars>>

VisionCleanup ==
    /\ pc = "vision_cleanup"
    /\ \E ok \in BOOLEAN :
          IF ok THEN /\ enhanced_caption' = cleanup_caption(enhanced_caption)
                     /\ pc' = "vision_validate"
                     /\ UNCHANGED <<failures, events>>
          ELSE /\ Raise("vision_cleanup", "vision_except", events)
               /\ UNCHANGED enhanced_caption
    /\ UNCHANGED <<config, enhancement_enabled, caller, original_caption, image_path,
                   result, propagated, vision_rejected, text_return,
                   batchVars, cleanVars, validVars, singVars, upVars>>

VisionValidate ==
    /\ pc = "vision_validate"
    /\ \E ok \in BOOLEAN :
          IF ok
          THEN /\ IF is_valid_enhancement(original_caption, enhanced_caption)
                  THEN result' = enhanced_caption /\ UNCHANGED vision_rejected
                  ELSE result' = original_caption /\ vision_rejected' = TRUE
               /\ pc' = ReturnPc
               /\ UNCHANGED <<failures, events>>
          ELSE /\ Raise("vision_validate", "vision_except", events)
               /\ UNCHANGED <<result, vision_rejected>>
    /\ UNCHANGED <<config, enhancement_enabled, caller, original_caption, image_path,
                   enhanced_caption, propagated, text_return,
                   batchVars, cleanVars, validVars, singVars, upVars>>

\* the handler of _enhance_with_vision, giving the original back at once
VisionExceptOriginal ==
    /\ pc = "vision_except"
    /\ result' = original_caption
    /\ pc' = ReturnPc
    /\ UNCHANGED <<config, enhancement_enabled, caller, original_caption, image_path,
                   enhanced_caption, propagated, events, failures, vision_rejected,
                   text_return, batchVars, cleanVars, validVars, singVars, upVars>>

\* the handler of _enhance_with_vision: on to _enhance_without_vision
VisionExcept ==
    /\ pc = "vision_except"
    /\ pc' = "text_request"
    /\ UNCHANGED <<config, enhancement_enabled, callVars, batchVars, cleanVars, validVars, singVars, upVars>>

\* self.model.generate_content(...) and response.text.strip()
TextRequest ==
    /\ pc = "text_request"
    /\ \E ok \in BOOLEAN, r \in Responses :
          IF ok THEN /\ enhanced_caption' = Strip(r)
                     /\ events' = Append(events, "text")
                     /\ pc' = "text_cleanup"
                     /\ UNCHANGED failures
          ELSE /\ Raise("text_request", "enhance_except", Append(events, "text"))
               /\ UNCHANGED enhanced_caption
    /\ UNCHANGED <<config, enhancement_enabled, caller, original_caption, image_path,
                   result, propagated, vision_rejected, text_return,
                   batchVars, cleanVars, validVars, singVars, upVars>>

TextCleanup ==
    /\ pc = "text_cleanup"
    /\ \E ok \in BOOLEAN :
          IF ok THEN /\ enhanced_caption' = cleanup_caption(enhanced_caption)
                     /\ pc' = "text_validate"
                     /\ UNCHANGED <<failures, events>>
          ELSE /\ Raise("text_cleanup", "enhance_except", events)
               /\ UNCHANGED enhanced_caption
    /\ UNCHANGED <<config, enhancement_enabled, caller, original_caption, image_path,
                   result, propagated, vision_rejected, text_return,
                   batchVars, cleanVars, validVars, singVars, upVars>>

TextValidate ==
    /\ pc = "text_validate"
    /\ \E ok \in BOOLEAN :
          IF ok
          THEN /\ result' = IF is_valid_enhancement(original_caption, enhanced_caption)
                            THEN enhanced_caption ELSE original_caption
               /\ text_return' = <<result'>>
               /\ pc' = ReturnPc
               /\ UNCHANGED <<failures, events>>
          ELSE /\ Raise("text_validate", "enhance_except", events)
               /\ UNCHANGED <<result, text_return>>
    /\ UNCHANGED <<config, enhancement_enabled, caller, original_caption, image_path,
                   enhanced_caption, propagated, vision_rejected,
                   batchVars, cleanVars, validVars, singVars, upVars>>

\* enhance_caption with no handler: the exception leaves it
EnhanceExceptReraise ==
    /\ pc = "enhance_except"
    /\ propagated' = TRUE
    /\ pc' = "done"
    /\ UNCHANGED <<config, enhancement_enabled, caller, original_caption, image_path,
                   enhanced_caption, result, events, failures, vision_rejected,
                   text_return, batchVars, cleanVars, validVars, singVars, upVars>>

\* the handler of enhance_caption: the original is returned
EnhanceExcept ==
    /\ pc = "enhance_except"
    /\ result' = original_caption
    /\ pc' = ReturnPc
    /\ UNCHANGED <<config, enhancement_enabled, caller, original_caption, image_path,
                   enhanced_caption, propagated, events, failures, vision_rejected,
                   text_return, batchVars, cleanVars, validVars, singVars, upVars>>

CallBatch ==
    /\ pc = "idle"
    /\ captions' \in CaptionLists(MaxBatch)
    /\ batch_index' = 1
    /\ enhanced_captions' = <<>>
    /\ batch_calls' = <<>>
    /\ batch_sleeps' = 0
    /\ pc' = "batch_loop"
    /\ UNCHANGED <<config, enhancement_enabled, callVars, cleanVars, validVars, singVars, upVars>>

\* for caption in captions: enhance_caption(caption)
BatchLoop ==
    /\ pc = "batch_loop"
    /\ IF batch_index <= Len(captions)
       THEN Enter(captions[batch_index], "none", "batch")
       ELSE pc' = "batch_done" /\ UNCHANGED callVars
    /\ UNCHANGED <<config, enhancement_enabled, batchVars, cleanVars, validVars, singVars, upVars>>

\* the call made and what it gave, as batch_enhance saw them
Called == [arg |-> original_caption, res |-> result, failed |-> failures # {}]

\* a loop body that keeps only the captions that were rewritten
BatchAppendChanged ==
    /\ pc = "batch_append"
    /\ enhanced_captions' = IF result # original_caption
                            THEN Append(enhanced_captions, result)
                            ELSE enhanced_captions
    /\ batch_calls' = Append(batch_calls, Called)
    /\ batch_sleeps' = batch_sleeps + 1
    /\ batch_index' = batch_index + 1
    /\ pc' = "batch_loop"
    /\ UNCHANGED <<config, enhancement_enabled, callVars, captions, cleanVars, validVars, singVars, upVars>>

\* enhanced_captions.append(enhanced); time.sleep(...)
BatchAppend ==
    /\ pc = "batch_append"
    /\ enhanced_captions' = Append(enhanced_captions, result)
    /\ batch_calls' = Append(batch_calls, Called)
    /\ batch_sleeps' = batch_sleeps + 1
    /\ batch_index' = batch_index + 1
    /\ pc' = "batch_loop"
    /\ UNCHANGED <<config, enhancement_enabled, callVars, captions, cleanVars, validVars, singVars, upVars>>

\* the caller has its value; the instance waits for the next call
Finish ==
    /\ pc \in {"done", "batch_done"}
    /\ pc' = "idle"
    /\ caller' = "top" /\ original_caption' = <<>> /\ image_path' = "none"
    /\ enhanced_caption' = <<>> /\ result' = <<>> /\ propagated' = FALSE
    /\ events' = <<>> /\ failures' = {} /\ vision_rejected' = FALSE
    /\ text_return' = <<>>
    /\ captions' = <<>> /\ batch_index' = 0 /\ enhanced_captions' = <<>>
    /\ batch_calls' = <<>> /\ batch_sleeps' = 0
    /\ UNCHANGED <<config, enhancement_enabled, cleanVars, validVars, singVars, upVars>>

EnhNext ==
    \/ CallEnhance \/ EnhanceBody
    \/ VisionOpen \/ VisionRequest \/ VisionCleanup \/ VisionValidate \/ VisionExcept
    \/ TextRequest \/ TextCleanup \/ TextValidate
    \/ EnhanceExcept
    \/ CallBatch \/ BatchLoop \/ BatchAppend
    \/ Finish

(***************************************************************************)
(* get_enhancer and the module-level enhance_caption, called by the        *)
(* threads of the host server.                                             *)
(***************************************************************************)
SingInit ==
    /\ enhancer_global = 0 /\ constructions = 0
    /\ sPc = [t \in Threads |-> "idle"]
    /\ sKind = [t \in Threads |-> "get"]
    /\ sLocal = [t \in Threads |-> 0]
    /\ sHeld = [t \in Threads |-> 0]
    /\ sUsed = [t \in Threads |-> 0]
    /\ overlapped = FALSE /\ raced = FALSE
    /\ CleanOff /\ ValidOff /\ EnhOff /\ UpOff

\* a thread calls get_enhancer() or enhance_caption(caption, image_path)
GetStart(t) ==
    /\ sPc[t] = "idle"
    /\ \E k \in {"get", "enhance"} : sKind' = [sKind EXCEPT ![t] = k]
    /\ sPc' = [sPc EXCEPT ![t] = "check"]
    /\ overlapped' = (overlapped \/ \E u \in Threads \ {t} : sPc[u] # "idle")
    /\ UNCHANGED <<enhancer_global, constructions, sLocal, sHeld, sUsed, raced,
                   cleanVars, validVars, enhVars, upVars>>

\* get_enhancer constructing at every call
GetCheckAlways(t) ==
    /\ sPc[t] = "check"
    /\ sPc' = [sPc EXCEPT ![t] = "construct"]
    /\ UNCHANGED <<enhancer_global, constructions, sKind, sLocal, sHeld, sUsed, 
                   overlapped, raced, cleanVars, validVars, enhVars, upVars>>

\* if _enhancer is None
GetCheck(t) ==
    /\ sPc[t] = "check"
    /\ sPc' = [sPc EXCEPT ![t] = IF enhancer_global = 0 THEN "construct" ELSE "return"]
    /\ raced' = (raced \/ (/\ enhancer_global = 0
                           /\ \E u \in Threads \ {t} : sPc[u] \in {"construct", "assign"}))
    /\ UNCHANGED <<enhancer_global, constructions, sKind, sLocal, sHeld, sUsed, 
                   overlapped, cleanVars, validVars, enhVars, upVars>>

\* CaptionEnhancer()
GetConstruct(t) ==
    /\ sPc[t] = "construct"
    /\ constructions' = constructions + 1
    /\ sLocal' = [sLocal EXCEPT ![t] = constructions + 1]
    /\ sPc' = [sPc EXCEPT ![t] = "assign"]
    /\ UNCHANGED <<enhancer_global, sKind, sHeld, sUsed, overlapped, raced,
                   cleanVars, validVars, enhVars, upVars>>

\* _enhancer = ...
GetAssign(t) ==
    /\ sPc[t] = "assign"
    /\ enhancer_global' = sLocal[t]
    /\ sLocal' = [sLocal EXCEPT ![t] = 0]
    /\ sPc' = [sPc EXCEPT ![t] = "return"]
    /\ UNCHANGED <<constructions, sKind, sHeld, sUsed, overlapped, raced,
                   cleanVars, validVars, enhVars, upVars>>

\* return _enhancer
GetReturn(t) ==
    /\ sPc[t] = "return"
    /\ sHeld' = [sHeld EXCEPT ![t] = enhancer_global]
    /\ sPc' = [sPc EXCEPT ![t] = IF sKind[t] = "enhance" THEN "use" ELSE "idle"]
    /\ UNCHANGED <<enhancer_global, constructions, sKind, sLocal, sUsed, 
                   overlapped, raced, cleanVars, validVars, enhVars, upVars>>

\* enhancer.enhance_caption(caption, image_path)
ConvenienceCall(t) ==
    /\ sPc[t] = "use"
    /\ sUsed' = [sUsed EXCEPT ![t] = sHeld[t]]
    /\ sPc' = [sPc EXCEPT ![t] = "idle"]
    /\ UNCHANGED <<enhancer_global, constructions, sKind, sLocal, sHeld, 
                   overlapped, raced, cleanVars, validVars, enhVars, upVars>>

SingNext ==
    \E t \in Threads :
        \/ GetStart(t) \/ GetCheck(t) \/ GetConstruct(t) \/ GetAssign(t)
        \/ GetReturn(t) \/ ConvenienceCall(t)

(***************************************************************************)
(* upload_file and cleanup_file_with_retry.  The staged file can be held   *)
(* by another process (os.remove raises) and can be removed or written     *)
(* again by another request of the same filename.                          *)
(***************************************************************************)
MaxRetriesArg == 4

MaxDelayArg == 2

\* max_retries=3
DefaultMaxRetries == 3

\* delay=0.1, in tenths of a second
DefaultDelay == 1

Filenames == {"", "cat.jpg"}

UpInit ==
    /\ uPc = "idle"
    /\ ReqIdle
    /\ fileExists \in BOOLEAN
    /\ ClIdle
    /\ CleanOff /\ ValidOff /\ EnhOff /\ SingOff

\* cleanup_file_with_retry(filepath, max_retries, delay) is entered
CleanupEnter(who, max_retries, delay) ==
    /\ clPc' = "loop"
    /\ clCaller' = who
    /\ clMax' = max_retries
    /\ clDelay' = delay
    /\ clAttempt' = 0
    /\ clOutcomes' = <<>>
    /\ clSleeps' = <<>>
    /\ clRet' = FALSE

\* a caller other than upload_file, such as cleanup_old_uploads
CleanupCall ==
    /\ uPc = "idle" /\ clPc = "off"
    /\ \E m \in 0..MaxRetriesArg, d \in 1..MaxDelayArg : CleanupEnter("direct", m, d)
    /\ uPc' = "cleaning"
    /\ UNCHANGED <<request, staged, captionOk, response, uEvents, fileExists,
                   cleanVars, validVars, enhVars, singVars>>

\* a wait that doubles with every attempt
BackoffDoubling(delay, attempt) == delay * 2 ^ attempt

\* delay * (attempt + 1)
Backoff(delay, attempt) == delay * (attempt + 1)

\* one pass of for attempt in range(max_retries), or the return after the loop
CleanupAttempt ==
    /\ clPc = "loop"
    /\ IF clAttempt >= clMax
       THEN /\ clRet' = FALSE
            /\ clPc' = "returned"
            /\ UNCHANGED <<fileExists, clAttempt, clOutcomes, clSleeps>>
       ELSE IF ~fileExists
       THEN /\ clOutcomes' = Append(clOutcomes, "absent")
            /\ clAttempt' = clAttempt + 1
            /\ UNCHANGED <<fileExists, clPc, clSleeps, clRet>>
       ELSE \E removed \in BOOLEAN :
               IF removed
               THEN /\ fileExists' = FALSE
                    /\ clOutcomes' = Append(clOutcomes, "removed")
                    /\ clRet' = TRUE
                    /\ clPc' = "returned"
                    /\ UNCHANGED <<clAttempt, clSleeps>>
               ELSE /\ clOutcomes' = Append(clOutcomes, "oserror")
                    /\ IF clAttempt < clMax - 1
                       THEN /\ clSleeps' = Append(clSleeps, Backoff(clDelay, clAttempt))
                            /\ clAttempt' = clAttempt + 1
                            /\ UNCHANGED <<clPc, clRet>>
                       ELSE /\ clRet' = FALSE
                            /\ clPc' = "returned"
                            /\ UNCHANGED <<clAttempt, clSleeps>>
                    /\ UNCHANGED fileExists
    /\ UNCHANGED <<reqVars, clCaller, clMax, clDelay, cleanVars, validVars, enhVars, singVars>>

\* another request removes the staged file or stages one of the same name
OtherRequest ==
    /\ clPc = "loop"
    /\ clAttempt < clMax
    /\ fileExists' = ~fileExists
    /\ UNCHANGED <<reqVars, clVars, cleanVars, validVars, enhVars, singVars>>

\* POST /upload arrives
UploadRequest ==
    /\ uPc = "idle" /\ clPc = "off"
    /\ request' \in [has_file : BOOLEAN, filename : Filenames]
    /\ uPc' = "check"
    /\ UNCHANGED <<staged, captionOk, response, uEvents, fileExists, clVars,
                   cleanVars, validVars, enhVars, singVars>>

\* 'file' not in request.files, file.filename == ''
UploadCheck ==
    /\ uPc = "check"
    /\ IF ~request.has_file \/ request.filename = ""
       THEN response' = [status |-> 400, success |-> FALSE] /\ uPc' = "done"
       ELSE uPc' = "save" /\ UNCHANGED response
    /\ UNCHANGED <<request, staged, captionOk, uEvents, fileExists, clVars,
                   cleanVars, validVars, enhVars, singVars>>

\* os.makedirs, file.save(filepath); a failure goes to the outer handler
UploadSave ==
    /\ uPc = "save"
    /\ \E ok \in BOOLEAN :
          IF ok
          THEN /\ staged' = TRUE
               /\ fileExists' = TRUE
               /\ uEvents' = Append(uEvents, "save")
               /\ uPc' = "caption"
               /\ UNCHANGED response
          ELSE /\ response' = [status |-> 500, success |-> FALSE]
               /\ uPc' = "done"
               /\ UNCHANGED <<staged, fileExists, uEvents>>
    /\ UNCHANGED <<request, captionOk, clVars, cleanVars, validVars, enhVars, singVars>>

\* the captioning with the cleanup after it instead of in a finally clause
UploadCaptionNoFinally ==
    /\ uPc = "caption"
    /\ uEvents' = Append(uEvents, "caption")
    /\ \E ok \in BOOLEAN :
          IF ok
          THEN /\ captionOk' = TRUE
               /\ CleanupEnter("upload", DefaultMaxRetries, DefaultDelay)
               /\ uPc' = "cleaning"
               /\ UNCHANGED response
          ELSE /\ captionOk' = FALSE
               /\ response' = [status |-> 500, success |-> FALSE]
               /\ uPc' = "done"
               /\ UNCHANGED clVars
    /\ UNCHANGED <<request, staged, fileExists, cleanVars, validVars, enhVars, singVars>>

\* generate.getBothCaptions(filepath) returns or raises; the finally clause
\* calls cleanup_file_with_retry(filepath)
UploadCaption ==
    /\ uPc = "caption"
    /\ uEvents' = Append(uEvents, "caption")
    /\ captionOk' \in BOOLEAN
    /\ CleanupEnter("upload", DefaultMaxRetries, DefaultDelay)
    /\ uPc' = "cleaning"
    /\ UNCHANGED <<request, staged, response, fileExists,
                   cleanVars, validVars, enhVars, singVars>>

\* cleanup_file_with_retry has returned: the success JSON, or the handler's 500
UploadRespond ==
    /\ uPc = "cleaning" /\ clPc = "returned" /\ clCaller = "upload"
    /\ uEvents' = Append(uEvents, "cleanup")
    /\ response' = IF captionOk THEN [status |-> 200, success |-> TRUE]
                   ELSE [status |-> 500, success |-> FALSE]
    /\ uPc' = "done"
    /\ UNCHANGED <<request, staged, captionOk, fileExists, clVars,
                   cleanVars, validVars, enhVars, singVars>>

\* the direct caller has its value
CleanupReturn ==
    /\ uPc = "cleaning" /\ clPc = "returned" /\ clCaller = "direct"
    /\ uPc' = "done"
    /\ UNCHANGED <<request, staged, captionOk, response, uEvents, fileExists, clVars,
                   cleanVars, validVars, enhVars, singVars>>

\* the next request or call can start
UploadFinish ==
    /\ uPc = "done"
    /\ uPc' = "idle"
    /\ request' = NoRequest /\ staged' = FALSE /\ captionOk' = FALSE
    /\ response' = NoResponse /\ uEvents' = <<>>
    /\ clPc' = "off" /\ clCaller' = "direct" /\ clMax' = 0 /\ clDelay' = 0
    /\ clAttempt' = 0 /\ clOutcomes' = <<>> /\ clSleeps' = <<>> /\ clRet' = FALSE
    /\ UNCHANGED <<fileExists, cleanVars, validVars, enhVars, singVars>>

UpNext ==
    \/ CleanupCall \/ CleanupAttempt \/ OtherRequest \/ CleanupReturn
    \/ UploadRequest \/ UploadCheck \/ UploadSave \/ UploadCaption \/ UploadRespond
    \/ UploadFinish

(***************************************************************************)
(* Specifications                                                          *)
(***************************************************************************)
SpecCleanup == CleanupInit /\ [][CleanupNext]_vars

SpecValid == ValidInit /\ [][ValidNext]_vars

Spec == EnhInit /\ [][EnhNext]_vars

SpecSingleton == SingInit /\ [][SingNext]_vars

SpecUpload == UpInit /\ [][UpNext]_vars

\* the thread inside cleanup_file_with_retry keeps running
SpecUploadFair == SpecUpload /\ WF_vars(CleanupAttempt)

(***************************************************************************)
(* C1, C2, C3, C8: one enhance_caption call                                *)
(***************************************************************************)
\* enhance_caption has returned to its caller
Returned == pc \in {"done", "batch_append"}

\* the statements of _enhance_without_vision
TextStages == {"text_request", "text_cleanup", "text_validate"}

\* how often e is in this call's events
Count(e) == Cardinality({i \in DOMAIN events : events[i] = e})

\* C1 as stated: enhance_caption never raises, and after any internal
\* failure it returns the original caption unchanged.
C1_FailureReturnsOriginal ==
    /\ ~propagated
    /\ (Returned /\ failures # {}) => result = original_caption

\* C1 amended: enhance_caption never raises; a failure on the text-only path
\* returns the original unchanged, and a failure on the vision path alone
\* returns what the text-only path returned, which may be a rewrite.
C1_NeverRaises ==
    /\ ~propagated
    /\ (Returned /\ failures \cap TextStages # {}) => result = original_caption
    /\ (Returned /\ failures # {} /\ failures \cap TextStages = {}) =>
           text_return = <<result>>

\* the image load and the text-only request both failed; the original came back
C1_Witness ==
    /\ Returned
    /\ {"image_load", "text_request"} \subseteq failures
    /\ original_caption # <<>>
    /\ result = original_caption

\* C2: a disabled instance returns its argument, sleeps and dispatches
\* nothing, and stays disabled.
C2_DisabledPassThrough ==
    /\ [](~enhancement_enabled =>
            (events = <<>> /\ (Returned => result = original_caption)))
    /\ [][~enhancement_enabled => ~enhancement_enabled']_vars

\* disabled by a failed configure, called with a caption and an image
C2_Witness ==
    /\ Returned
    /\ ~enhancement_enabled
    /\ config.available /\ config.has_key /\ config.configure_raises
    /\ image_path = "exists"
    /\ original_caption # <<>>
    /\ result = original_caption

\* C3 as stated: enhance_caption returns a non-empty string for all inputs.
C3_NonEmpty == Returned => result # <<>>

\* C3 amended: enhance_caption returns a non-empty string whenever the
\* original caption is non-empty.
C3_NonEmptyForNonEmptyOriginal ==
    (Returned /\ original_caption # <<>>) => result # <<>>

\* the model answered with nothing and the non-empty original came back
C3_Witness ==
    /\ Returned
    /\ enhancement_enabled
    /\ original_caption # <<>>
    /\ Count("text") = 1 /\ failures = {}
    /\ enhanced_caption = <<>>
    /\ result = original_caption

\* C8: a failed image load or vision request is followed by exactly one
\* text-only request whose path decides the result; the vision request
\* comes first and each request is sent at most once; a vision response
\* that validation rejects gives the original with no text-only request.
C8_VisionThenText ==
    /\ Count("vision") <= 1 /\ Count("text") <= 1
    /\ \A i, j \in DOMAIN events :
          (events[i] \in {"vision", "image_load", "vision_request"} /\ events[j] = "text")
              => i < j
    /\ (Returned /\ enhancement_enabled /\ image_path = "exists"
          /\ failures \cap {"image_load", "vision_request"} # {}) =>
            /\ Count("text") = 1
            /\ IF failures \cap TextStages = {}
               THEN text_return = <<result>>
               ELSE result = original_caption
    /\ (Returned /\ vision_rejected) => (result = original_caption /\ Count("text") = 0)

\* the vision request failed and the text-only path's rewrite was returned
C8_Witness ==
    /\ Returned
    /\ image_path = "exists"
    /\ events = <<"sleep", "vision", "vision_request", "text">>
    /\ text_return = <<result>>
    /\ result # original_caption

(***************************************************************************)
(* C7: batch_enhance                                                       *)
(***************************************************************************)
\* C7: batch_enhance returns one result per caption, the i-th being what
\* enhance_caption gave for the i-th caption, calls made in input order.
C7_BatchKeepsOrder ==
    /\ ~propagated
    /\ pc = "batch_done" =>
          /\ Len(enhanced_captions) = Len(captions)
          /\ Len(batch_calls) = Len(captions)
          /\ \A i \in 1..Len(captions) :
                /\ batch_calls[i].arg = captions[i]
                /\ enhanced_captions[i] = batch_calls[i].res

\* the first caption's enhancement failed, the second was rewritten
C7_Witness ==
    /\ pc = "batch_done"
    /\ Len(captions) >= 2
    /\ batch_calls[1].failed
    /\ enhanced_captions[1] = captions[1]
    /\ enhanced_captions[2] # captions[2]

(***************************************************************************)
(* C10: the singleton                                                      *)
(***************************************************************************)
\* C10: calls that do not overlap make one construction and all get that
\* instance; a second construction happens only when a thread finds None
\* while another is between its None check and its assignment.
C10_SingletonUnlessRaced ==
    /\ constructions >= 2 => raced
    /\ ~overlapped =>
          /\ constructions <= 1
          /\ \A t \in Threads :
                sHeld[t] # 0 => (constructions = 1 /\ sHeld[t] = enhancer_global)
          /\ \A t \in Threads : sUsed[t] \in {0, enhancer_global}

\* two first accesses interleaved: two constructions, two different instances
C10_Witness ==
    /\ raced
    /\ constructions = 2
    /\ sHeld[1] # 0 /\ sHeld[2] # 0
    /\ sHeld[1] # sHeld[2]

(***************************************************************************)
(* C5, C9: the upload handler and its file cleanup                         *)
(***************************************************************************)
\* C5: once a file is staged, cleanup_file_with_retry runs after the
\* captioning has returned or raised, and the response is the success JSON
\* or the 500 of the captioning alone, whatever the deletion did.
C5_CleanupAfterCaptioning ==
    /\ uPc \in {"check", "save", "caption"} => clPc = "off"
    /\ (uPc = "done" /\ staged) =>
          /\ uEvents = <<"save", "caption", "cleanup">>
          /\ clPc = "returned" /\ clCaller = "upload"
          /\ response = IF captionOk THEN [status |-> 200, success |-> TRUE]
                        ELSE [status |-> 500, success |-> FALSE]

\* the captioning succeeded, every deletion attempt failed, the response is 200
C5_Witness ==
    /\ uPc = "done" /\ staged /\ captionOk
    /\ clOutcomes = <<"oserror", "oserror", "oserror">>
    /\ clRet = FALSE
    /\ fileExists
    /\ response = [status |-> 200, success |-> TRUE]

\* the sleeps owed from the k-th pass on: delay * k after a failed removal
\* that is not the last attempt
RECURSIVE SleepsOwed(_, _, _, _)
SleepsOwed(outs, k, max_retries, delay) ==
    IF k > Len(outs) THEN <<>>
    ELSE (IF outs[k] = "oserror" /\ k < max_retries THEN <<delay * k>> ELSE <<>>)
             \o SleepsOwed(outs, k + 1, max_retries, delay)

\* the passes that called os.remove
RemovalAttempts == {i \in DOMAIN clOutcomes : clOutcomes[i] # "absent"}

\* what C9 says of every state of a cleanup_file_with_retry call
C9_State ==
    clPc \in {"loop", "returned"} =>
        /\ Cardinality(RemovalAttempts) <= clMax
        /\ Len(clOutcomes) <= clMax
        /\ clSleeps = SleepsOwed(clOutcomes, 1, clMax, clDelay)
        /\ clPc = "loop" => \A i \in DOMAIN clOutcomes : clOutcomes[i] # "removed"
        /\ clPc = "returned" =>
              (clRet <=> \E i \in DOMAIN clOutcomes : clOutcomes[i] = "removed")

Settled(s) ==
    /\ s = <<>> \/ (s[1] \notin {"\"", "'"} /\ s[Len(s)] \notin {"\"", "'"})
    /\ \A i \in DOMAIN prefixes_to_remove : ~StartsWith(Lower(s), prefixes_to_remove[i])
    /\ \A i \in DOMAIN explanation_markers : ~Contains(s, explanation_markers[i])

\* C4 as stated: _cleanup_caption applied twice gives what one application
\* gives, for every text.
C4_Idempotent == cleanPc = "twice" => cleanTwice = cleanOnce

\* C4 amended: a second application changes nothing whenever the first
\* result has no quote at either end, starts with no removable prefix and
\* holds no explanation marker; the lowercasing and the word limit never
\* undo each other.
C4_IdempotentOnSettled ==
    (cleanPc = "twice" /\ Settled(cleanOnce)) => cleanTwice = cleanOnce

\* a long capitalised text was cut to the word limit and is stable
C4_Witness ==
    /\ cleanPc = "twice"
    /\ Settled(cleanOnce)
    /\ Len(Split(cleanIn)) > MaxCaptionWords
    /\ Len(Split(cleanOnce)) = MaxCaptionWords
    /\ IsUpper(cleanOnce[1])
    /\ cleanTwice = cleanOnce

(***************************************************************************)
(* C6                                                                      *)
(***************************************************************************)
\* the distinct lowercase tokens of a string
Tokens(s) ==
    LET ws == Split(Lower(s))
    IN  {ws[i] : i \in 1..Len(ws)}

\* the number of tokens common to both strings
CommonCount(a, b) ==
    LET ta == Tokens(a)
        tb == Tokens(b)
    IN  Cardinality({w \in ta : w \in tb})

\* the case C6 is about: a non-empty proposal and no people-to-vehicle override
C6_Case ==
    /\ validPc = "done"
    /\ validEnhanced # <<>>
    /\ ~(has_people(validOriginal) /\ has_vehicles(validEnhanced))

\* C6 as stated: rejected exactly when the common tokens are fewer than a
\* fifth of the number of words of the original.
C6_WordCountRatio ==
    C6_Case =>
        (validResult = FALSE <=>
            5 * CommonCount(validOriginal, validEnhanced)
                < Max(Len(Split(validOriginal)), 1))

\* C6 amended: rejected exactly when the common tokens are fewer than a
\* fifth of the number of distinct lowercase tokens of the original.
C6_DistinctRatio ==
    C6_Case =>
        (validResult = FALSE <=>
            5 * CommonCount(validOriginal, validEnhanced)
                < Max(Cardinality(Tokens(validOriginal)), 1))

\* accepted although the common tokens are fewer than a fifth of the words
C6_Witness ==
    /\ C6_Case
    /\ validResult = TRUE
    /\ 5 * CommonCount(validOriginal, validEnhanced) < Len(Split(validOriginal))
====
